---- MODULE Spec2Model ----
(***************************************************************************)
(* A state-machine model of transcribe_to_gdocs.py: one Run of main()      *)
(* (record -> transcribe -> summarize -> publish, with the recovery scope  *)
(* and the cleanup in its finally block), and summarize_text() called on   *)
(* its own with arbitrary max_retries / backoff_factor.                    *)
(*                                                                         *)
(* The external collaborators (rec, whisper, the OpenAI endpoint, the      *)
(* Google Docs endpoint, the file system, the user's Ctrl+C) are           *)
(* nondeterministic: each step picks one of the outcomes the collaborator  *)
(* can produce.                                                            *)
(***************************************************************************)
EXTENDS Integers, Sequences, FiniteSets, TLC

\* ------------------------------------------------------------------ bounds
\* Largest max_retries / backoff_factor handed to summarize_text when it is
\* called on its own (main always passes the defaults).
MaxRetriesArg == 7
MaxBackoffArg == 2

\* ------------------------------------------------------- program constants
\* def summarize_text(text, api_key, max_retries=5, backoff_factor=2)
DefaultMaxRetries == 5
DefaultBackoffFactor == 2
\* wait_time = backoff_factor * (6 - max_retries)
BackoffOrigin == 6

\* ------------------------------------------------------------------ values
NoFile == "<absent>"
Unset  == "<unset>"
Empty  == ""

\* The files of one Run, and the process-wide token cache.
\*   wav        recording_<timestamp>.wav
\*   scratch    recording_<timestamp>.txt   (whisper's output file)
\*   transcript transcription_<timestamp>.txt
\*   summary    summary_<timestamp>.txt
\*   token      token.json
FileNames == {"wav", "scratch", "transcript", "summary", "token"}

\* What whisper can write for a recording, and what the LLM can answer.
Texts     == {Empty, "Hello world."}
Summaries == {"Summary."}


NoArgs == [max_retries |-> -1, backoff_factor |-> -1]

VARIABLES
    pc,             \* the statement about to run
    caller,         \* "main": a Run of main(); "direct": summarize_text called on its own
    fs,             \* file name -> content, NoFile when the file does not exist
    keyFile,        \* the OpenAI key file: "absent", "empty", "unreadable", "ok"
    credsFile,      \* the Google OAuth client file: "absent", "present"
    transcription,  \* main's local variable
    summary,        \* main's local variable / summarize_text's return value
    doc_url,        \* main's local variable
    args,           \* the arguments of the outermost summarize_text call
    max_retries,    \* the max_retries parameter of the innermost summarize_text frame
    llmCalls,       \* outcomes of the calls of client.chat.completions.create, in order
    waits,          \* the wait_time values computed before each retry, in order
    exc,            \* the exception in flight (NoExc when none)
    printed,        \* the messages printed so far
    docCalls,       \* outcomes of the calls of the Google Docs API, in order
    exit            \* "running", "returned" (normal return), "raised" (exception left the call)

vars == <<pc, caller, fs, keyFile, credsFile, transcription, summary, doc_url,
          args, max_retries, llmCalls, waits, exc, printed, docCalls, exit>>

\* An exception: its class, its message, and the statement that raised it (the
\* innermost entry of its traceback).
NoExc == [type |-> "none", msg |-> "", at |-> ""]
Exc(t, m) == [type |-> t, msg |-> m, at |-> pc]

\* --------------------------------------------------------- exception classes
\* Python's class hierarchy for the exception types the program meets.
IsInstance(t, cls) ==
    CASE cls = "BaseException"     -> t # "none"
      [] cls = "Exception"         -> t \notin {"none", "KeyboardInterrupt"}
      [] cls = "OpenAIError"       -> t \in {"OpenAIError", "RateLimitError"}
      [] cls = "OSError"           -> t \in {"OSError", "FileNotFoundError"}
      [] OTHER                     -> t = cls

Say(m) == printed' = printed \cup {m}

\* ------------------------------------------------------ control transfers
\* The statements of main's try body (lines 211-238, with the calls they make).
TryBody == {"rec", "whisper", "read_scratch", "open_transcript", "write_transcript",
            "get_key", "llm_call", "sleep", "open_summary", "write_summary",
            "get_creds", "oauth_flow", "save_token", "doc_create", "doc_insert",
            "report"}
Finally == {"cleanup_wav", "cleanup_scratch"}

\* An exception leaves the current statement of the try body: in main it reaches
\* the except clauses; when summarize_text is called on its own it leaves the call.
Raise(e) ==
    /\ exc' = e
    /\ IF caller = "main"
       THEN pc' = "except" /\ exit' = exit
       ELSE pc' = "done" /\ exit' = "raised"

\* A variant of lines 222-227 in which main goes on to the publication without
\* writing the summary backup.
Return_without_backup(s) ==
    /\ summary' = s
    /\ exc' = exc
    /\ IF caller = "main"
       THEN pc' = "get_creds" /\ exit' = exit
       ELSE pc' = "done" /\ exit' = "returned"

\* summarize_text returns s to its caller (every frame returns the inner frame's value).
Return(s) ==
    /\ summary' = s
    /\ exc' = exc
    /\ IF caller = "main"
       THEN pc' = "open_summary" /\ exit' = exit
       ELSE pc' = "done" /\ exit' = "returned"

\* ---------------------------------------------------------- summarize_text
LlmOutcomes == {"ok", "RateLimitError", "OpenAIError", "Exception"}

\* Variants of line 166 that stop one retry early / allow one retry more.
may_retry_one_less(m) == m > 1
may_retry_one_more(m) == m >= 0

\* line 166: if max_retries > 0
may_retry(m) == m > 0

\* line 167: wait_time = backoff_factor * (6 - max_retries)
wait_time(m, b) == b * (BackoffOrigin - m)

\* A variant of line 165 that retries on every API error.
retried_any_api_error(t) == IsInstance(t, "OpenAIError")

\* line 165: the except clause that retries
retried(t) == IsInstance(t, "RateLimitError")

\* lines 146-181 without the sleep and the recursive call: one call of the
\* collaborator and the except clause its outcome selects.
summarize_text_call ==
    /\ pc = "llm_call"
    /\ \E o \in LlmOutcomes :
        /\ llmCalls' = Append(llmCalls, o)
        /\ IF o = "ok"
           THEN /\ \E s \in Summaries : Return(s)
                /\ UNCHANGED <<waits, printed>>
           ELSE IF retried(o)
           THEN IF may_retry(max_retries)
                THEN /\ waits' = Append(waits, wait_time(max_retries, args.backoff_factor))
                     /\ Say("summarize: Rate limit exceeded. Retrying")
                     /\ pc' = "sleep"
                     /\ UNCHANGED <<summary, exc, exit>>
                ELSE /\ Say("summarize: Max retries exceeded")
                     /\ Raise(Exc(o, "rate limit"))
                     /\ UNCHANGED <<waits, summary>>
           ELSE IF IsInstance(o, "OpenAIError")
           THEN /\ Say("summarize: An OpenAI API error occurred")
                /\ Raise(Exc(o, "api error"))
                /\ UNCHANGED <<waits, summary>>
           ELSE /\ Say("summarize: An unexpected error occurred")
                /\ Raise(Exc(o, "unexpected"))
                /\ UNCHANGED <<waits, summary>>
    /\ UNCHANGED <<caller, fs, keyFile, credsFile, transcription, doc_url, args,
                   max_retries, docCalls>>

\* lines 169-170: time.sleep(wait_time), then the recursive call with
\* max_retries - 1.  time.sleep raises ValueError for a negative length; raised
\* inside the except clause, it is not caught by the clauses after it.
summarize_text_sleep ==
    /\ pc = "sleep"
    /\ IF waits[Len(waits)] < 0
       THEN /\ Raise(Exc("ValueError", "sleep length must be non-negative"))
            /\ UNCHANGED max_retries
       ELSE /\ max_retries' = max_retries - 1
            /\ pc' = "llm_call"
            /\ UNCHANGED <<exc, exit>>
    /\ UNCHANGED <<caller, fs, keyFile, credsFile, transcription, summary, doc_url,
                   args, llmCalls, waits, printed, docCalls>>

\* ---------------------------------------------------- record_and_transcribe
\* A variant of lines 101-108 in which the CalledProcessError clause does not
\* re-raise.
rec_reraises_only_missing_binary(t) == t = "FileNotFoundError"

\* lines 101-108: the except clauses around the recording that end in `raise`
\* (the KeyboardInterrupt clause only prints).
rec_reraises(t) == t \in {"FileNotFoundError", "CalledProcessError"}

\* What an exception of the recording does after its clause has printed: it
\* leaves record_and_transcribe, or the function goes on to line 110.
rec_except(t, m) ==
    IF rec_reraises(t)
    THEN Raise(Exc(t, m))
    ELSE pc' = "whisper" /\ UNCHANGED <<exc, exit>>

\* lines 98-108: subprocess.run(['rec', ...], check=True) and its except clauses
\* (the KeyboardInterrupt clause is in Interrupt).
record_and_transcribe_rec ==
    /\ pc = "rec"
    /\ \/ /\ fs' = [fs EXCEPT !["wav"] = "audio"]
          /\ pc' = "whisper"
          /\ UNCHANGED <<exc, exit, printed>>
       \/ /\ Say("Error: 'rec' command not found")
          /\ rec_except("FileNotFoundError", "No such file or directory: 'rec'")
          /\ UNCHANGED fs
       \/ /\ Say("Error during recording")
          /\ \E w \in {NoFile, "audio"} : fs' = [fs EXCEPT !["wav"] = w]
          /\ rec_except("CalledProcessError", "rec")
    /\ UNCHANGED <<caller, keyFile, credsFile, transcription, summary, doc_url, args,
                   max_retries, llmCalls, waits, docCalls>>

\* lines 110-125 and 140-142: subprocess.run(whisper_command, check=True).
\* whisper writes recording_<timestamp>.txt only when it had audio to read, and
\* may exit 0 without writing it.
record_and_transcribe_whisper ==
    /\ pc = "whisper"
    /\ \/ /\ fs["wav"] # NoFile
          /\ \E t \in Texts : fs' = [fs EXCEPT !["scratch"] = t]
          /\ pc' = "read_scratch"
          /\ UNCHANGED <<exc, exit, printed>>
       \/ /\ pc' = "read_scratch"
          /\ UNCHANGED <<fs, exc, exit, printed>>
       \/ /\ Say("Error running Whisper")
          /\ Raise(Exc("CalledProcessError", "whisper"))
          /\ UNCHANGED fs
       \/ /\ Raise(Exc("FileNotFoundError", "No such file or directory: 'whisper'"))
          /\ UNCHANGED <<fs, printed>>
    /\ UNCHANGED <<caller, keyFile, credsFile, transcription, summary, doc_url, args,
                   max_retries, llmCalls, waits, docCalls>>

\* lines 127-138: read the transcription file whisper wrote, or raise when it
\* is missing.  Returning binds main's `transcription` (line 213).
record_and_transcribe_read ==
    /\ pc = "read_scratch"
    /\ IF fs["scratch"] # NoFile
       THEN /\ transcription' = fs["scratch"]
            /\ pc' = "open_transcript"
            /\ UNCHANGED <<exc, exit, printed>>
       ELSE /\ Say("Available txt files")
            /\ Raise(Exc("FileNotFoundError", "Could not find transcription file"))
            /\ UNCHANGED transcription
    /\ UNCHANGED <<caller, fs, keyFile, credsFile, summary, doc_url, args,
                   max_retries, llmCalls, waits, docCalls>>

\* ----------------------------------------------------- the local backups
\* `with open(f, 'w') as f:` creates (or truncates) the file, or fails.
backup_open(at, f, next) ==
    /\ pc = at
    /\ \/ /\ fs' = [fs EXCEPT ![f] = Empty]
          /\ pc' = next
          /\ UNCHANGED <<exc, exit>>
       \/ /\ Raise(Exc("OSError", "open"))
          /\ UNCHANGED fs
    /\ UNCHANGED <<caller, keyFile, credsFile, transcription, summary, doc_url, args,
                   max_retries, llmCalls, waits, printed, docCalls>>

\* `f.write(text)` and the close at the end of the with block, then the print
\* that follows; a failed write leaves the file created and empty.
backup_write(at, f, text, msg, next) ==
    /\ pc = at
    /\ \/ /\ fs' = [fs EXCEPT ![f] = text]
          /\ Say(msg)
          /\ pc' = next
          /\ UNCHANGED <<exc, exit>>
       \/ /\ Raise(Exc("OSError", "write"))
          /\ UNCHANGED <<fs, printed>>
    /\ UNCHANGED <<caller, keyFile, credsFile, transcription, summary, doc_url, args,
                   max_retries, llmCalls, waits, docCalls>>

\* A variant in which the key is loaded once the transcript file is opened,
\* before line 217 has written it.
main_open_transcription_then_key == backup_open("open_transcript", "transcript", "get_key")

\* line 216
main_open_transcription == backup_open("open_transcript", "transcript", "write_transcript")
\* lines 217-218
main_write_transcription ==
    backup_write("write_transcript", "transcript", transcription,
                 "Local transcription backup saved", "get_key")
\* line 225
main_open_summary == backup_open("open_summary", "summary", "write_summary")
\* lines 226-227
main_write_summary ==
    backup_write("write_summary", "summary", summary,
                 "Local summary backup saved", "get_creds")

\* ----------------------------------------------------- get_openai_api_key
\* lines 65-79, and on success the call of line 222 with the default
\* max_retries and backoff_factor.
get_openai_api_key ==
    /\ pc = "get_key"
    /\ CASE keyFile = "absent" ->
              /\ Say("OpenAI key setup instructions")
              /\ Raise(Exc("FileNotFoundError", "OpenAI API key file not found"))
              /\ UNCHANGED <<args, max_retries>>
         [] keyFile = "empty" ->
              /\ Say("Error reading OpenAI API key")
              /\ Raise(Exc("ValueError", "OpenAI API key file is empty."))
              /\ UNCHANGED <<args, max_retries>>
         [] keyFile = "unreadable" ->
              /\ Say("Error reading OpenAI API key")
              /\ Raise(Exc("OSError", "read"))
              /\ UNCHANGED <<args, max_retries>>
         [] OTHER ->
              /\ args' = [max_retries |-> DefaultMaxRetries,
                          backoff_factor |-> DefaultBackoffFactor]
              /\ max_retries' = DefaultMaxRetries
              /\ pc' = "llm_call"
              /\ UNCHANGED <<exc, exit, printed>>
    /\ UNCHANGED <<caller, fs, keyFile, credsFile, transcription, summary, doc_url,
                   llmCalls, waits, docCalls>>

\* ------------------------------------------------------- get_google_creds
\* lines 46-57: the credentials-file check, the cached token, and whether the
\* interactive flow is needed.
get_google_creds ==
    /\ pc = "get_creds"
    /\ IF credsFile = "absent"
       THEN /\ Say("Google credentials setup instructions")
            /\ Raise(Exc("FileNotFoundError", "Credentials file not found"))
       ELSE /\ pc' = IF fs["token"] = "valid" THEN "doc_create" ELSE "oauth_flow"
            /\ UNCHANGED <<exc, exit, printed>>
    /\ UNCHANGED <<caller, fs, keyFile, credsFile, transcription, summary, doc_url,
                   args, max_retries, llmCalls, waits, docCalls>>

\* lines 58-59: the interactive authorization exchange.
get_google_creds_flow ==
    /\ pc = "oauth_flow"
    /\ \/ /\ pc' = "save_token"
          /\ UNCHANGED <<exc, exit>>
       \/ Raise(Exc("Exception", "authorization failed"))
    /\ UNCHANGED <<caller, fs, keyFile, credsFile, transcription, summary, doc_url,
                   args, max_retries, llmCalls, waits, printed, docCalls>>

\* lines 61-63: write token.json and return the credentials.
get_google_creds_save ==
    /\ pc = "save_token"
    /\ \/ /\ fs' = [fs EXCEPT !["token"] = "valid"]
          /\ pc' = "doc_create"
          /\ UNCHANGED <<exc, exit>>
       \/ /\ \E t \in {fs["token"], Empty} : fs' = [fs EXCEPT !["token"] = t]
          /\ Raise(Exc("OSError", "write"))
    /\ UNCHANGED <<caller, keyFile, credsFile, transcription, summary, doc_url,
                   args, max_retries, llmCalls, waits, printed, docCalls>>

\* ------------------------------------------------------------- create_doc
\* A variant of line 92 that catches nothing.
create_doc_catches_nothing(t) == FALSE

\* line 92: except HttpError
create_doc_catches(t) == IsInstance(t, "HttpError")

\* What a failed remote call does: caught, reported and None returned (lines
\* 92-94), or the exception leaves create_doc.
create_doc_failed(t) ==
    IF create_doc_catches(t)
    THEN /\ Say("An error occurred while creating the document")
         /\ doc_url' = "None"
         /\ pc' = "report"
         /\ UNCHANGED <<exc, exit>>
    ELSE /\ Raise(Exc(t, "docs"))
         /\ UNCHANGED <<doc_url, printed>>

\* lines 84-86: build the service and create the empty document.
create_doc_create ==
    /\ pc = "doc_create"
    /\ \/ /\ docCalls' = Append(docCalls, "ok")
          /\ pc' = "doc_insert"
          /\ UNCHANGED <<doc_url, exc, exit, printed>>
       \/ \E t \in {"HttpError", "Exception"} :
             /\ docCalls' = Append(docCalls, t)
             /\ create_doc_failed(t)
    /\ UNCHANGED <<caller, fs, keyFile, credsFile, transcription, summary,
                   args, max_retries, llmCalls, waits>>

\* lines 88-91: insert the text and return the URL.
create_doc_insert ==
    /\ pc = "doc_insert"
    /\ \/ /\ docCalls' = Append(docCalls, "ok")
          /\ doc_url' = "https://docs.google.com/document/d/<id>/edit"
          /\ pc' = "report"
          /\ UNCHANGED <<exc, exit, printed>>
       \/ \E t \in {"HttpError", "Exception"} :
             /\ docCalls' = Append(docCalls, t)
             /\ create_doc_failed(t)
    /\ UNCHANGED <<caller, fs, keyFile, credsFile, transcription, summary,
                   args, max_retries, llmCalls, waits>>

\* lines 237-238: the success message, then the try body is left normally.
main_report ==
    /\ pc = "report"
    /\ IF doc_url # "None"
       THEN Say("Success! Document available")
       ELSE UNCHANGED printed
    /\ pc' = "cleanup_wav"
    /\ UNCHANGED <<caller, fs, keyFile, credsFile, transcription, summary, doc_url,
                   args, max_retries, llmCalls, waits, exc, docCalls, exit>>

\* ----------------------------------------------- main: the except clauses
SetupMessages == {"Credentials file not found", "OpenAI API key file not found"}

\* A variant of lines 240-255 without the `except KeyboardInterrupt` clause.
main_clause_without_interrupt(e) ==
    IF IsInstance(e.type, "FileNotFoundError") THEN "FileNotFoundError"
    ELSE IF IsInstance(e.type, "RateLimitError") THEN "RateLimitError"
    ELSE IF IsInstance(e.type, "OpenAIError") THEN "OpenAIError"
    ELSE IF IsInstance(e.type, "Exception") THEN "Exception"
    ELSE "uncaught"

\* lines 240-255: the first except clause, in source order, that matches e.
main_clause(e) ==
    IF IsInstance(e.type, "FileNotFoundError") THEN "FileNotFoundError"
    ELSE IF IsInstance(e.type, "KeyboardInterrupt") THEN "KeyboardInterrupt"
    ELSE IF IsInstance(e.type, "RateLimitError") THEN "RateLimitError"
    ELSE IF IsInstance(e.type, "OpenAIError") THEN "OpenAIError"
    ELSE IF IsInstance(e.type, "Exception") THEN "Exception"
    ELSE "uncaught"

\* lines 241-246: the clause ends in `return` (the setup errors, whose
\* instructions the credential provider has printed already).
main_returns_quietly(e) ==
    main_clause(e) = "FileNotFoundError" /\ e.msg \in SetupMessages

\* lines 241-259: what the matching clause prints.
main_prints(e) ==
    CASE main_clause(e) = "FileNotFoundError" ->
            IF main_returns_quietly(e) THEN {} ELSE {"main: Error"}
      [] main_clause(e) = "KeyboardInterrupt" -> {"main: Process interrupted by user"}
      [] main_clause(e) = "RateLimitError"    -> {"main: Error: Rate limit exceeded"}
      [] main_clause(e) = "OpenAIError"       -> {"main: An OpenAI API error occurred"}
      [] main_clause(e) = "Exception"         -> {"main: An error occurred", "Full error trace"}
      [] OTHER                                -> {}

\* A variant in which the cleanup follows the try statement instead of being its
\* finally block: the `return`s of lines 243 and 246 skip it.
after_except_return_skips_cleanup(e) ==
    IF e.type = "FileNotFoundError" /\ e.msg \in SetupMessages THEN "done" ELSE "cleanup_wav"

\* line 260: `finally` - the cleanup runs after every except clause, the ones
\* that end in `return` included.
after_except(e) == "cleanup_wav"

main_except ==
    /\ pc = "except"
    /\ printed' = printed \cup main_prints(exc)
    /\ exc' = IF main_clause(exc) = "uncaught" THEN exc ELSE NoExc
    /\ pc' = after_except(exc)
    /\ exit' = IF pc' = "done" THEN "returned" ELSE exit
    /\ UNCHANGED <<caller, fs, keyFile, credsFile, transcription, summary, doc_url,
                   args, max_retries, llmCalls, waits, docCalls>>

\* ---------------------------------------------------------- cleanup_files
\* A variant of lines 263-266 that hands transcription_file to cleanup_files.
cleanup_target_transcript(at) == IF at = "cleanup_wav" THEN "wav" ELSE "transcript"
cleanup_target_summary(at) == IF at = "cleanup_wav" THEN "summary" ELSE "scratch"

\* lines 263-266: the files main hands to cleanup_files, in order.
cleanup_target(at) == IF at = "cleanup_wav" THEN "wav" ELSE "scratch"

CleanedUp(f)      == IF f = "wav" THEN "Cleaned up wav" ELSE "Cleaned up scratch"
CouldNotRemove(f) == IF f = "wav" THEN "Warning: Could not remove wav"
                                  ELSE "Warning: Could not remove scratch"

\* lines 185-191 for one file name, and after the last one lines 267-268 and
\* the end of main: a return, or the exception still in flight leaves main.
cleanup_files ==
    /\ pc \in Finally
    /\ LET f == cleanup_target(pc) IN
         IF fs[f] # NoFile
         THEN \/ /\ fs' = [fs EXCEPT ![f] = NoFile]
                 /\ Say(CleanedUp(f))
              \/ /\ Say(CouldNotRemove(f))
                 /\ UNCHANGED fs
         ELSE UNCHANGED <<fs, printed>>
    /\ IF pc = "cleanup_wav"
       THEN pc' = "cleanup_scratch" /\ exit' = exit
       ELSE pc' = "done" /\ exit' = IF exc = NoExc THEN "returned" ELSE "raised"
    /\ UNCHANGED <<caller, keyFile, credsFile, transcription, summary, doc_url,
                   args, max_retries, llmCalls, waits, exc, docCalls>>

\* ------------------------------------------------------------- the user
\* Ctrl+C: KeyboardInterrupt is raised in the statement that is running.
\*  - during rec: caught by line 101, the Run goes on with what was recorded;
\*  - elsewhere in the try body: it propagates to main's except clauses
\*    (it is no Exception, so summarize_text and create_doc do not catch it);
\*  - inside an except clause: the finally block runs, then it leaves main;
\*  - inside the finally block: it leaves main at once.
Interrupt ==
    /\ pc \in TryBody \cup {"except"} \cup Finally
    /\ llmCalls' = IF pc = "llm_call" THEN Append(llmCalls, "KeyboardInterrupt")
                                      ELSE llmCalls
    /\ CASE pc = "rec" ->
              /\ Say("Recording stopped")
              /\ \E w \in {NoFile, "audio"} : fs' = [fs EXCEPT !["wav"] = w]
              /\ rec_except("KeyboardInterrupt", "")
         [] pc \in TryBody \ {"rec"} ->
              /\ Raise(Exc("KeyboardInterrupt", ""))
              /\ UNCHANGED <<fs, printed>>
         [] pc = "except" ->
              /\ exc' = Exc("KeyboardInterrupt", "")
              /\ pc' = "cleanup_wav"
              /\ UNCHANGED <<fs, printed, exit>>
         [] OTHER ->
              /\ exc' = Exc("KeyboardInterrupt", "")
              /\ pc' = "done"
              /\ exit' = "raised"
              /\ UNCHANGED <<fs, printed>>
    /\ UNCHANGED <<caller, keyFile, credsFile, transcription, summary, doc_url,
                   args, max_retries, waits, docCalls>>

\* ------------------------------------------------------- specifications
\* A Run of main(): lines 206-209 have named the files, none of which exists;
\* the key file, the credentials file and token.json are as the user left them.
Init ==
    /\ pc = "rec"
    /\ caller = "main"
    /\ \E t \in {NoFile, "expired", "valid"} :
          fs = [f \in FileNames |-> IF f = "token" THEN t ELSE NoFile]
    /\ keyFile \in {"absent", "empty", "unreadable", "ok"}
    /\ credsFile \in {"absent", "present"}
    /\ transcription = Unset
    /\ summary = Unset
    /\ doc_url = Unset
    /\ args = NoArgs
    /\ max_retries = -1
    /\ llmCalls = <<>>
    /\ waits = <<>>
    /\ exc = NoExc
    /\ printed = {}
    /\ docCalls = <<>>
    /\ exit = "running"

Next ==
    \/ record_and_transcribe_rec
    \/ record_and_transcribe_whisper
    \/ record_and_transcribe_read
    \/ main_open_transcription
    \/ main_write_transcription
    \/ get_openai_api_key
    \/ summarize_text_call
    \/ summarize_text_sleep
    \/ main_open_summary
    \/ main_write_summary
    \/ get_google_creds
    \/ get_google_creds_flow
    \/ get_google_creds_save
    \/ create_doc_create
    \/ create_doc_insert
    \/ main_report
    \/ main_except
    \/ cleanup_files
    \/ Interrupt

Spec == Init /\ [][Next]_vars

\* summarize_text(text, api_key, max_retries, backoff_factor) called on its own.
InitSummarize ==
    /\ pc = "llm_call"
    /\ caller = "direct"
    /\ fs = [f \in FileNames |-> NoFile]
    /\ keyFile = "ok"
    /\ credsFile = "present"
    /\ transcription \in Texts
    /\ summary = Unset
    /\ doc_url = Unset
    /\ args \in [max_retries : 0..MaxRetriesArg, backoff_factor : 0..MaxBackoffArg]
    /\ max_retries = args.max_retries
    /\ llmCalls = <<>>
    /\ waits = <<>>
    /\ exc = NoExc
    /\ printed = {}
    /\ docCalls = <<>>
    /\ exit = "running"

NextSummarize ==
    \/ summarize_text_call
    \/ summarize_text_sleep
    \/ Interrupt

SpecSummarize == InitSummarize /\ [][NextSummarize]_vars

\* Each collaborator call and each sleep returns: a step that can be taken is
\* taken.
FairSpecSummarize == SpecSummarize /\ WF_vars(NextSummarize)

\* ====================================================================
\*                         P R O P E R T I E S
\* ====================================================================
RunEnded == caller = "main" /\ pc = "done"
CallEnded == caller = "direct" /\ pc = "done"

Exists(f) == fs[f] # NoFile

\* ---------------------------------------------------------------- C1
\* C1 (as stated): whenever record_and_transcribe returned a text, the file
\* transcription_<timestamp>.txt exists when the Run ends.
C1_TranscriptDurable ==
    (RunEnded /\ transcription # Unset) => Exists("transcript")

\* ---------------------------------------------------------------- C2
\* C2 (as stated): once the Run has ended, neither recording_<timestamp>.wav
\* nor recording_<timestamp>.txt exists, on every exit path.
C2_NoTransientFileSurvives ==
    RunEnded => ~Exists("wav") /\ ~Exists("scratch")

\* The finally block was left by a KeyboardInterrupt before it had handled f.
CleanupCutShortBefore(f) ==
    /\ exit = "raised"
    /\ exc.type = "KeyboardInterrupt"
    /\ \/ exc.at = "cleanup_wav"
       \/ exc.at = "cleanup_scratch" /\ f = "scratch"

\* C2 (amended): on every exit path the finally block is entered; once the Run
\* has ended, each of recording_<timestamp>.wav and recording_<timestamp>.txt is
\* absent unless os.remove on it raised (the warning is printed and the file is
\* left) or a KeyboardInterrupt left the finally block before the file's turn.
C2_CleanupBestEffort ==
    RunEnded =>
        \A f \in {"wav", "scratch"} :
            Exists(f) => CouldNotRemove(f) \in printed \/ CleanupCutShortBefore(f)

\* The setup-error early return after a recording and a transcription: both
\* transient files existed and both were removed.
C2_Witness ==
    /\ RunEnded
    /\ exit = "returned"
    /\ "OpenAI key setup instructions" \in printed
    /\ {CleanedUp("wav"), CleanedUp("scratch")} \subseteq printed
    /\ ~Exists("wav") /\ ~Exists("scratch")

\* ---------------------------------------------------------------- C3
\* The calls made so far are those a collaborator makes that fails with a
\* rate-limit error on its first n calls and succeeds on every later call.
FitsStub(n) ==
    \A i \in 1..Len(llmCalls) :
        llmCalls[i] = IF i <= n THEN "RateLimitError" ELSE "ok"

StubFailures == 0..(MaxRetriesArg + 2)

Uninterrupted == exc.type # "KeyboardInterrupt"

\* No wait_time of the call is negative (backoff_factor is not negative here,
\* so the first wait is the smallest).
NoNegativeWait == args.max_retries <= 6 \/ args.backoff_factor = 0

\* C3 (as stated, for max_retries >= 1 and no negative wait_time): with such a
\* collaborator, summarize_text returns a summary iff n < max_retries, and
\* otherwise ends with the rate-limit error.
C3_SucceedsIffFewerThanMaxRetries ==
    (CallEnded /\ Uninterrupted /\ args.max_retries >= 1 /\ NoNegativeWait) =>
        \A n \in StubFailures :
            FitsStub(n) =>
                /\ exit = "returned" <=> n < args.max_retries
                /\ exit # "returned" => exc.type = "RateLimitError"

\* C3 (amended): with such a collaborator summarize_text makes up to
\* max_retries + 1 calls: it returns a summary iff n <= max_retries, and ends
\* with the rate-limit error iff n > max_retries - both provided no wait_time is
\* negative.  With a negative wait_time (max_retries > 6, backoff_factor > 0)
\* it returns a summary iff n = 0, and for n >= 1 ends with the ValueError of
\* time.sleep.
C3_SucceedsIffAtMostMaxRetries ==
    (CallEnded /\ Uninterrupted) =>
        \A n \in StubFailures :
            FitsStub(n) =>
                IF NoNegativeWait
                THEN /\ exit = "returned" <=> n <= args.max_retries
                     /\ (exit = "raised" /\ exc.type = "RateLimitError")
                            <=> n > args.max_retries
                ELSE /\ exit = "returned" <=> n = 0
                     /\ (exit = "raised" /\ exc.type = "ValueError") <=> n >= 1

\* max_retries = 5, five rate-limit failures, and the sixth call succeeds.
C3_Witness ==
    /\ CallEnded
    /\ args.max_retries = DefaultMaxRetries
    /\ Len(llmCalls) = DefaultMaxRetries + 1
    /\ FitsStub(DefaultMaxRetries)
    /\ exit = "returned"
    /\ summary \in Summaries

\* ---------------------------------------------------------------- C4
\* C4 (as stated): the wait after the k-th consecutive rate-limit failure is
\* backoff_factor * k, for every max_retries and backoff_factor.
C4_LinearBackoff ==
    \A k \in 1..Len(waits) : waits[k] = args.backoff_factor * k

\* ---------------------------------------------------------------- C5
NotRetried == {"OpenAIError", "Exception"}

\* C5: when the first call of the collaborator fails with an API error that is
\* no rate-limit error, or with another unexpected error, summarize_text has
\* called the collaborator exactly once, has computed no wait, has printed the
\* message of that class and has ended by raising that error.
C5_NonRetry ==
    (caller = "direct" /\ llmCalls # <<>> /\ llmCalls[1] \in NotRetried) =>
        /\ Len(llmCalls) = 1
        /\ waits = <<>>
        /\ pc = "done"
        /\ exit = "raised"
        /\ exc.type = llmCalls[1]
        /\ exc.at = "llm_call"
        /\ "summarize: Rate limit exceeded. Retrying" \notin printed
        /\ IF llmCalls[1] = "OpenAIError"
           THEN "summarize: An OpenAI API error occurred" \in printed
           ELSE "summarize: An unexpected error occurred" \in printed

C5_Witness ==
    /\ CallEnded
    /\ args.max_retries = DefaultMaxRetries
    /\ llmCalls = <<"OpenAIError">>
    /\ exit = "raised"

\* ---------------------------------------------------------------- C6
AllRateLimited ==
    llmCalls # <<>> /\ \A i \in 1..Len(llmCalls) : llmCalls[i] = "RateLimitError"

\* C6 (as stated): for max_retries >= 1 one invocation calls the collaborator at
\* most max_retries times, and when every call fails with a rate-limit error it
\* ends with the rate-limit error after exactly max_retries calls.
C6_AtMostMaxRetriesCalls ==
    (caller = "direct" /\ args.max_retries >= 1) =>
        /\ Len(llmCalls) <= args.max_retries
        /\ (pc = "done" /\ Uninterrupted /\ AllRateLimited /\ NoNegativeWait) =>
               /\ exc.type = "RateLimitError"
               /\ Len(llmCalls) = args.max_retries

C6_Bounded ==
    caller = "direct" =>
        /\ Len(llmCalls) <= args.max_retries + 1
        /\ Len(waits) <= args.max_retries
        /\ (pc = "done" /\ Uninterrupted /\ AllRateLimited) =>
               IF NoNegativeWait
               THEN /\ exit = "raised"
                    /\ exc.type = "RateLimitError"
                    /\ Len(llmCalls) = args.max_retries + 1
               ELSE /\ exit = "raised"
                    /\ exc.type = "ValueError"
                    /\ Len(llmCalls) = 1
        /\ (pc = "done" /\ exc.type = "RateLimitError") =>
               AllRateLimited /\ Len(llmCalls) = args.max_retries + 1

\* C6 (amended): one invocation of summarize_text calls the collaborator at
\* most max_retries + 1 times, always terminates when each call and each sleep
\* returns, and when every call fails with a rate-limit error it ends with the
\* rate-limit error after exactly max_retries + 1 calls (after one call, with
\* the ValueError of time.sleep, when the wait_time is negative).
C6_BoundedAndTerminates == []C6_Bounded /\ <>(pc = "done")

\* max_retries = 5 and six rate-limit failures: the sixth is fatal.
C6_Witness ==
    /\ CallEnded
    /\ args.max_retries = DefaultMaxRetries
    /\ AllRateLimited
    /\ Len(llmCalls) = DefaultMaxRetries + 1
    /\ exc.type = "RateLimitError"
    /\ "summarize: Max retries exceeded" \in printed

\* ---------------------------------------------------------------- C7
Both           == Exists("transcript") /\ Exists("summary")
OnlyTranscript == Exists("transcript") /\ ~Exists("summary")
Neither        == ~Exists("transcript") /\ ~Exists("summary")

TranscriptSaved == "Local transcription backup saved" \in printed
SummarySaved    == "Local summary backup saved" \in printed

\* C7: a summary file never exists without the transcript file, so at the end
\* of a Run both files exist, or only the transcript, or neither.  A Run in
\* which capture or transcription failed (record_and_transcribe returned
\* nothing) ends with neither file and without any call of the LLM; a Run that
\* ends with neither file has never called the LLM; a Run that got past the
\* transcript backup (failure at or after the start of summarization) ends with
\* the transcript on disk; a Run that got past the summary backup ends with both.
C7_ArtifactInvariant ==
    caller = "main" =>
        /\ Exists("summary") => Exists("transcript")
        /\ RunEnded =>
            /\ transcription = Unset => Neither /\ llmCalls = <<>>
            /\ Neither => llmCalls = <<>>
            /\ OnlyTranscript => transcription # Unset /\ ~SummarySaved
            /\ TranscriptSaved => fs["transcript"] = transcription
            /\ SummarySaved => Both /\ fs["summary"] = summary

\* Rate-limit exhaustion: the Run ends with the transcript alone.
C7_Witness ==
    /\ RunEnded
    /\ OnlyTranscript
    /\ "main: Error: Rate limit exceeded" \in printed
    /\ Len(llmCalls) = DefaultMaxRetries + 1
    /\ exit = "returned"

\* ---------------------------------------------------------------- C8
KeyLoadFailed ==
    \/ "OpenAI key setup instructions" \in printed
    \/ "Error reading OpenAI API key" \in printed

\* C8 (as stated): when the key file is absent or holds only whitespace, the
\* Run prints the setup instructions and ends without a stack trace, in both
\* cases alike.
C8_SecretSetupError ==
    (RunEnded /\ keyFile \in {"absent", "empty"} /\ KeyLoadFailed) =>
        /\ "OpenAI key setup instructions" \in printed
        /\ "Full error trace" \notin printed

\* ---------------------------------------------------------------- C9
FailureReports ==
    {"main: Error", "main: Process interrupted by user",
     "main: Error: Rate limit exceeded", "main: An OpenAI API error occurred",
     "main: An error occurred", "OpenAI key setup instructions",
     "Google credentials setup instructions"}

InterruptedOutsideTry ==
    exc.type = "KeyboardInterrupt" /\ exc.at \in {"except"} \cup Finally

\* C9: every exception raised inside main's try body - by a stage, by a
\* credential provider, or by Ctrl+C - is taken by one of main's except clauses;
\* a report of the failure has been printed once the clause is done; main then
\* returns normally, after cleanup_files has handled both transient files.  The
\* only exception that ever leaves main is a KeyboardInterrupt raised outside
\* the try body (inside an except clause or inside the finally block).
C9_NeverRaises ==
    caller = "main" =>
        /\ pc = "except" => exc.at \in TryBody /\ main_clause(exc) # "uncaught"
        /\ (pc \in Finally /\ exc # NoExc) => InterruptedOutsideTry
        /\ RunEnded =>
            \/ exit = "returned" /\ exc = NoExc
            \/ exit = "raised" /\ InterruptedOutsideTry
        /\ (pc \in Finally \cup {"done"} /\ doc_url = Unset) =>
            \/ printed \cap FailureReports # {}
            \/ InterruptedOutsideTry
        /\ (RunEnded /\ exit = "returned") =>
            \A f \in {"wav", "scratch"} : Exists(f) => CouldNotRemove(f) \in printed

\* Ctrl+C after the transcript backup: reported, and main returns.
C9_Witness ==
    /\ RunEnded
    /\ exit = "returned"
    /\ "main: Process interrupted by user" \in printed
    /\ Exists("transcript")
    /\ ~Exists("wav")

\* --------------------------------------------------------------- C10
HttpErrorSeen == \E i \in 1..Len(docCalls) : docCalls[i] = "HttpError"

MainFailureReports ==
    {"main: Error", "main: Error: Rate limit exceeded",
     "main: An OpenAI API error occurred", "main: An error occurred",
     "Full error trace"}

\* C10: once a call of the Google Docs API has failed with HttpError, create_doc
\* has printed the error and returned None; no except clause of main takes that
\* failure (main goes on to line 237; only a later Ctrl+C can still reach an
\* except clause); and both the transcript file and the summary file are on
\* disk, with their full content, from then to the end of the Run.
C10_PublicationDegrades ==
    HttpErrorSeen =>
        /\ "An error occurred while creating the document" \in printed
        /\ doc_url = "None"
        /\ "Success! Document available" \notin printed
        /\ pc \in {"report", "except", "done"} \cup Finally
        /\ exc.type \in {"none", "KeyboardInterrupt"}
        /\ printed \cap MainFailureReports = {}
        /\ fs["transcript"] = transcription /\ Exists("transcript")
        /\ fs["summary"] = summary /\ Exists("summary")

\* The document is created, the insertion fails, and the Run ends normally.
C10_Witness ==
    /\ RunEnded
    /\ docCalls = <<"ok", "HttpError">>
    /\ exit = "returned"
    /\ Both

\* --------------------------------------------------------------- C11
\* A KeyboardInterrupt was raised outside capture: it is in flight or has left
\* main (exc), or main's except clause has taken and reported it.
InterruptReported == "main: Process interrupted by user" \in printed
InterruptArrived  == exc.type = "KeyboardInterrupt" \/ InterruptReported

\* C11 (as stated): a Ctrl+C at any point of the Run other than during capture
\* - the finally block included - is caught by main, reported as an
\* interruption, starts no further stage, and the cleanup of the capture file
\* and the scratch file still runs to completion.
C11_InterruptCaughtEverywhere ==
    caller = "main" =>
        /\ (InterruptReported \/ exc.type = "KeyboardInterrupt") =>
               pc \in {"except", "done"} \cup Finally
        /\ (RunEnded /\ InterruptArrived) =>
               /\ exit = "returned"
               /\ InterruptReported
               /\ \A f \in {"wav", "scratch"} :
                      Exists(f) => CouldNotRemove(f) \in printed

\* --------------------------------------------------------------- C12
RecFailed ==
    \/ "Error: 'rec' command not found" \in printed
    \/ "Error during recording" \in printed
RecInterrupted == "Recording stopped" \in printed

C12_Inv ==
    caller = "main" =>
        /\ RecFailed =>
            /\ pc \in {"except", "done"} \cup Finally
            /\ transcription = Unset
            /\ ~Exists("scratch") /\ ~Exists("transcript") /\ ~Exists("summary")
            /\ llmCalls = <<>>
        /\ RecInterrupted => ~RecFailed /\ pc # "rec"

C12_Step ==
    (caller = "main" /\ pc = "rec" /\ pc' # "rec") =>
        IF RecFailed'
        THEN /\ pc' = "except"
             /\ exc'.type \in {"FileNotFoundError", "CalledProcessError"}
             /\ exc'.at = "rec"
        ELSE /\ pc' = "whisper"
             /\ exc' = NoExc

\* C12: the recording is left in one of two ways.  When it is interrupted by
\* Ctrl+C (or rec returns normally) no exception leaves it and the Run goes on
\* to the transcription.  When the recorder is missing or exits nonzero the
\* exception goes to main's except clauses: whisper is never run (no scratch
\* file, no transcription), the LLM is never called, and no transcript or
\* summary file is created.
C12_CaptureExits == []C12_Inv /\ [][C12_Step]_vars

\* Ctrl+C during the recording, and the Run went on to save the transcript.
C12_Witness ==
    /\ caller = "main"
    /\ RecInterrupted
    /\ TranscriptSaved
    /\ fs["transcript"] = "Hello world."

\* --------------------------------------------------------------- C13
\* C13 (as stated): with a valid cached token.json get_google_creds returns
\* without failing and without the interactive exchange; the exchange runs only
\* when there is no valid cached token, and get_google_creds returns (the Run
\* reaches create_doc) only with a valid token.json on disk.
C13_CredentialCache ==
    caller = "main" =>
        /\ (fs["token"] = "valid" /\ exc.at = "get_creds") =>
               exc.type = "KeyboardInterrupt"
        /\ pc \in {"oauth_flow", "save_token"} => fs["token"] # "valid"
        /\ pc \in {"doc_create", "doc_insert"} => fs["token"] = "valid"

\* --------------------------------------------------------------- C14
Durable == {"transcript", "summary", "token"}

C14_Step ==
    /\ \A f \in Durable : fs[f] # NoFile => fs'[f] # NoFile
    /\ pc \in Finally => \A f \in Durable : fs'[f] = fs[f]
    /\ TranscriptSaved => fs'["transcript"] = fs["transcript"]
    /\ SummarySaved => fs'["summary"] = fs["summary"]

\* C14: no step of a Run removes transcription_<timestamp>.txt,
\* summary_<timestamp>.txt or token.json; the steps of the finally block leave
\* all three unchanged; a transcript or summary that has been written keeps
\* its content to the end of the Run.
C14_DurableNeverDeleted == [][caller = "main" => C14_Step]_vars

\* A Run that wrote both backups and has removed both transient files.
C14_Witness ==
    /\ RunEnded
    /\ TranscriptSaved /\ SummarySaved
    /\ Exists("transcript") /\ Exists("summary") /\ Exists("token")
    /\ {CleanedUp("wav"), CleanedUp("scratch")} \subseteq printed

\* --------------------------------------------------------------- C15
\* C15 (as stated): whenever record_and_transcribe returned a text t, the
\* content of transcription_<timestamp>.txt when the Run ends is exactly t
\* (read here for the Runs that main ends by returning).
C15_TranscriptContent ==
    (RunEnded /\ exit = "returned" /\ transcription # Unset)
        => fs["transcript"] = transcription

\* --------------------------------------------------------------- C16
Capture       == {"rec"}
Transcription == {"whisper", "read_scratch"}
Summarization == {"get_key", "llm_call", "sleep"}
Publication   == {"get_creds", "oauth_flow", "save_token", "doc_create",
                  "doc_insert", "report"}

\* The position of a program point in main's text.
StageOf(p) ==
    CASE p \in Capture -> 1
      [] p \in Transcription -> 2
      [] p \in {"open_transcript", "write_transcript"} -> 3
      [] p \in Summarization -> 4
      [] p \in {"open_summary", "write_summary"} -> 5
      [] p \in Publication -> 6
      [] p = "except" -> 7
      [] p \in Finally -> 8
      [] OTHER -> 9

C16_Inv ==
    caller = "main" =>
        /\ pc \in Transcription => ~RecFailed /\ transcription = Unset
        /\ StageOf(pc) \in 3..6 => transcription # Unset
        /\ pc \in Summarization =>
               TranscriptSaved /\ fs["transcript"] = transcription
        /\ pc \in Summarization \cup {"open_summary", "write_summary"} \cup Publication =>
               TranscriptSaved
        /\ pc \in Publication =>
               /\ llmCalls # << >> /\ llmCalls[Len(llmCalls)] = "ok"
               /\ summary # Unset
               /\ SummarySaved /\ fs["summary"] = summary
        /\ pc \in Capture \cup Transcription => llmCalls = << >> /\ docCalls = << >>
        /\ StageOf(pc) \in 1..5 => docCalls = << >>

C16_Step ==
    caller = "main" =>
        /\ StageOf(pc') >= StageOf(pc)
        /\ pc' = "rec" => pc = "rec"
        /\ (pc' = "whisper" /\ pc # "whisper") => pc = "rec"
        /\ (pc' = "get_creds" /\ pc # "get_creds") => pc = "write_summary"
        /\ pc \in Finally \cup {"done"} => pc' \in Finally \cup {"done"}

\* C16: the stages of a Run start in the order capture, transcription,
\* summarization, publication, never go back and never start twice; whisper
\* runs only after rec ended without error, the LLM is set up and called only
\* with the returned transcription written to its backup file, the publication
\* starts only after summarize_text returned and the summary backup is
\* written, and once the finally block is entered no stage runs any more.
C16_StageOrdering == []C16_Inv /\ [][C16_Step]_vars

\* A Run that went through all four stages and is about to clean up.
C16_Witness ==
    /\ caller = "main" /\ pc = "cleanup_wav" /\ exc = NoExc
    /\ "Success! Document available" \in printed
    /\ Len(llmCalls) >= 2

\* --------------------------------------------------------------- C17
RateLimitExhausted == "summarize: Max retries exceeded" \in printed
ApiErrorSeen       == "summarize: An OpenAI API error occurred" \in printed
SetupInstructions  ==
    {"OpenAI key setup instructions", "Google credentials setup instructions"}
SetupError ==
    \/ keyFile \in {"absent", "empty"} /\ KeyLoadFailed
    \/ "Google credentials setup instructions" \in printed
MainReports ==
    {"main: Error", "main: Process interrupted by user",
     "main: Error: Rate limit exceeded", "main: An OpenAI API error occurred",
     "main: An error occurred"}

\* C17 (as stated, for the Runs that main ends by returning): a failed Run is
\* reported by one class of report only; a rate-limit exhaustion by the
\* rate-limit report, another API error by the short API message, a setup error
\* by the setup instructions alone, and none of these three with a full trace.
C17_ExclusiveClassification ==
    (RunEnded /\ exit = "returned") =>
        /\ Cardinality(printed \cap MainReports) <= 1
        /\ RateLimitExhausted =>
               /\ "main: Error: Rate limit exceeded" \in printed
               /\ "main: An OpenAI API error occurred" \notin printed
               /\ "Full error trace" \notin printed
        /\ ApiErrorSeen =>
               /\ "main: An OpenAI API error occurred" \in printed
               /\ "main: Error: Rate limit exceeded" \notin printed
               /\ "Full error trace" \notin printed
        /\ SetupError =>
               /\ printed \cap SetupInstructions # {}
               /\ printed \cap MainReports = {}
               /\ "Full error trace" \notin printed

\* --------------------------------------------------------------- C18
\* The key file has been looked at: get_openai_api_key is running, has failed,
\* or has returned the key that summarize_text was called with.
KeyFileRead == pc = "get_key" \/ KeyLoadFailed \/ args # NoArgs

\* credentials.json or token.json has been looked at.
CredsFilesRead ==
    \/ pc \in {"get_creds", "oauth_flow", "save_token", "doc_create", "doc_insert"}
    \/ "Google credentials setup instructions" \in printed

C18_Inv ==
    caller = "main" =>
        /\ KeyFileRead =>
               TranscriptSaved /\ fs["transcript"] = transcription
        /\ CredsFilesRead =>
               /\ TranscriptSaved /\ fs["transcript"] = transcription
               /\ SummarySaved /\ fs["summary"] = summary
        /\ keyFile = "absent" =>
               /\ llmCalls = << >> /\ ~Exists("summary") /\ ~CredsFilesRead
               /\ (RunEnded /\ KeyLoadFailed) => OnlyTranscript
        /\ (credsFile = "absent" /\ CredsFilesRead) =>
               /\ Both
               /\ pc \notin {"oauth_flow", "save_token", "doc_create", "doc_insert"}
               /\ docCalls = << >>

C18_Step ==
    caller = "main" =>
        /\ fs'["token"] # fs["token"] => pc = "save_token" /\ SummarySaved
        /\ credsFile = "absent" => fs'["token"] = fs["token"]

\* C18: the OpenAI key file is looked at only once the transcript backup is
\* written, and credentials.json and token.json only once the summary backup
\* is written too; a Run without a key file calls no LLM, writes no summary and
\* ends, when it got as far as the key, with the transcript alone on disk; a
\* Run without credentials.json that got as far as the publication keeps both
\* files, starts no authorization exchange, and leaves token.json as it was.
C18_LazyCredentials == []C18_Inv /\ [][C18_Step]_vars

\* A Run that summarized and then found no credentials.json.
C18_Witness ==
    /\ RunEnded /\ exit = "returned"
    /\ credsFile = "absent" /\ keyFile = "ok"
    /\ "Google credentials setup instructions" \in printed
    /\ Both

====
